---- MODULE Spec2Model ----
(***************************************************************************)
(* HashSure: document_hasher_rust_server/src/lib.rs                        *)
(*                                                                         *)
(* Two entry points, calculate_sha256_bytes and calculate_hmac_sha256,     *)
(* drive sha2::Sha256, hmac::Hmac<Sha256> and the two hex encoders         *)
(* (format!("{:x}") and hex::encode).  A 32-bit word is a pair <<hi, lo>>  *)
(* of 16-bit halves, so that every sum stays inside the integers of the    *)
(* model checker while the arithmetic is still modulo 2^32.                *)
(***************************************************************************)
EXTENDS Integers, Sequences, FiniteSets, TLC

(***************************************************************************)
(* 32-bit word arithmetic (u32 in sha2), on <<hi, lo>> halves.             *)
(***************************************************************************)
Pow2 == [n \in 0..16 |-> CASE n = 0 -> 1 [] n = 1 -> 2 [] n = 2 -> 4 [] n = 3 -> 8
                           [] n = 4 -> 16 [] n = 5 -> 32 [] n = 6 -> 64 [] n = 7 -> 128
                           [] n = 8 -> 256 [] n = 9 -> 512 [] n = 10 -> 1024
                           [] n = 11 -> 2048 [] n = 12 -> 4096 [] n = 13 -> 8192
                           [] n = 14 -> 16384 [] n = 15 -> 32768 [] OTHER -> 65536]

\* ^ and & of two bits, and of two values of four bits.
XorBit(a, b) == (a + b) % 2
AndBit(a, b) == a * b
XorNibble(a, b) ==
      XorBit(a % 2, b % 2)
    + 2 * XorBit((a \div 2) % 2, (b \div 2) % 2)
    + 4 * XorBit((a \div 4) % 2, (b \div 4) % 2)
    + 8 * XorBit(a \div 8, b \div 8)
AndNibble(a, b) ==
      AndBit(a % 2, b % 2)
    + 2 * AndBit((a \div 2) % 2, (b \div 2) % 2)
    + 4 * AndBit((a \div 4) % 2, (b \div 4) % 2)
    + 8 * AndBit(a \div 8, b \div 8)

\* u8 ^ and &, tabulated once; u16 ^ and & take two bytes each.
XorByte ==
    [a \in 0..255 |-> [b \in 0..255 |->
        16 * XorNibble(a \div 16, b \div 16) + XorNibble(a % 16, b % 16)]]
AndByte ==
    [a \in 0..255 |-> [b \in 0..255 |->
        16 * AndNibble(a \div 16, b \div 16) + AndNibble(a % 16, b % 16)]]
Xor16(a, b) == XorByte[a \div 256][b \div 256] * 256 + XorByte[a % 256][b % 256]
And16(a, b) == AndByte[a \div 256][b \div 256] * 256 + AndByte[a % 256][b % 256]

Xor32(x, y) == <<Xor16(x[1], y[1]), Xor16(x[2], y[2])>>
And32(x, y) == <<And16(x[1], y[1]), And16(x[2], y[2])>>
Not32(x) == <<65535 - x[1], 65535 - x[2]>>

\* wrapping_add
Add32(x, y) ==
    <<(x[1] + y[1] + ((x[2] + y[2]) \div 65536)) % 65536, (x[2] + y[2]) % 65536>>

\* rotate_right(n), 0 < n < 32
\* (a rotation by 16 or more swaps the halves, then rotates by the rest)
RotrHalves(hi, lo, p, q) == <<(hi \div p) + (lo % p) * q, (lo \div p) + (hi % p) * q>>
Rotr32(x, n) ==
    IF n >= 16
    THEN RotrHalves(x[2], x[1], Pow2[n - 16], Pow2[32 - n])
    ELSE RotrHalves(x[1], x[2], Pow2[n], Pow2[16 - n])

\* >> n, 0 < n < 16
Shr32(x, n) == <<x[1] \div Pow2[n], (x[2] \div Pow2[n]) + (x[1] % Pow2[n]) * Pow2[16 - n]>>

(***************************************************************************)
(* SHA-256 (FIPS 180-4), the algorithm behind sha2::Sha256.                *)
(***************************************************************************)
\* Block size of SHA-256 in bytes, and the size of its output.
BlockSize == 64
OutputSize == 32

\* Initial hash value H(0).
H256_INIT == <<
    <<27145, 58983>>, <<47975, 44677>>, <<15470, 62322>>, <<42319, 62778>>,
    <<20750, 21119>>, <<39685, 26764>>, <<8067, 55723>>, <<23520, 52505>>
>>

\* Round constants K.
K32 == <<
    <<17034, 12184>>, <<28983, 17553>>, <<46528, 64463>>, <<59829, 56229>>,
    <<14678, 49755>>, <<23025, 4593>>, <<37439, 33444>>, <<43804, 24277>>,
    <<55303, 43672>>, <<4739, 23297>>, <<9265, 34238>>, <<21772, 32195>>,
    <<29374, 23924>>, <<32990, 45566>>, <<39900, 1703>>, <<49563, 61812>>,
    <<58523, 27073>>, <<61374, 18310>>, <<4033, 40390>>, <<9228, 41420>>,
    <<11753, 11375>>, <<19060, 33962>>, <<23728, 43484>>, <<30457, 35034>>,
    <<38974, 20818>>, <<43057, 50797>>, <<45059, 10184>>, <<48985, 32711>>,
    <<50912, 3059>>, <<54695, 37191>>, <<1738, 25425>>, <<5161, 10599>>,
    <<10167, 2693>>, <<11803, 8504>>, <<19756, 28156>>, <<21304, 3347>>,
    <<25866, 29524>>, <<30314, 2747>>, <<33218, 51502>>, <<37490, 11397>>,
    <<41663, 59553>>, <<43034, 26187>>, <<49739, 35696>>, <<51052, 20899>>,
    <<53650, 59417>>, <<54937, 1572>>, <<62478, 13701>>, <<4202, 41072>>,
    <<6564, 49430>>, <<7735, 27656>>, <<10056, 30540>>, <<13488, 48309>>,
    <<14620, 3251>>, <<20184, 43594>>, <<23452, 51791>>, <<26670, 28659>>,
    <<29839, 33518>>, <<30885, 25455>>, <<33992, 30740>>, <<36039, 520>>,
    <<37054, 65530>>, <<42064, 27883>>, <<48889, 41975>>, <<50801, 30962>>
>>

Ch(x, y, z) == Xor32(And32(x, y), And32(Not32(x), z))
\* Maj taken for the parity function of SHA-1.
MajParity(x, y, z) == Xor32(Xor32(x, y), z)
Maj(x, y, z) == Xor32(Xor32(And32(x, y), And32(x, z)), And32(y, z))
BigSigma0(x) == Xor32(Xor32(Rotr32(x, 2), Rotr32(x, 13)), Rotr32(x, 22))
BigSigma1(x) == Xor32(Xor32(Rotr32(x, 6), Rotr32(x, 11)), Rotr32(x, 25))
SmallSigma0(x) == Xor32(Xor32(Rotr32(x, 7), Rotr32(x, 18)), Shr32(x, 3))
SmallSigma1(x) == Xor32(Xor32(Rotr32(x, 17), Rotr32(x, 19)), Shr32(x, 10))

\* u32::from_be_bytes on the four bytes of block b that start at index i.
WordBE(b, i) == <<b[i] * 256 + b[i + 1], b[i + 2] * 256 + b[i + 3]>>

\* The message schedule extended by W(lo..hi), lo > 16, given w = W(1..lo-1).
\* (The range is split in halves, and Len(first) makes the checker evaluate the
\* first half before it starts the second: the evaluation stays shallow.)
RECURSIVE Schedule(_, _, _)
ScheduleRest(first, mid, hi) ==
    IF Len(first) = mid THEN Schedule(first, mid + 1, hi) ELSE first
Schedule(w, lo, hi) ==
    IF lo = hi
    THEN Append(w, Add32(Add32(SmallSigma1(w[lo - 2]), w[lo - 7]),
                         Add32(SmallSigma0(w[lo - 15]), w[lo - 16])))
    ELSE ScheduleRest(Schedule(w, lo, (lo + hi) \div 2), (lo + hi) \div 2, hi)

\* One round on the working variables v = <<a, b, c, d, e, f, g, h>>.
RoundT1(v, k, w) ==
    Add32(Add32(Add32(v[8], BigSigma1(v[5])), Add32(Ch(v[5], v[6], v[7]), k)), w)
RoundT2(v) == Add32(BigSigma0(v[1]), Maj(v[1], v[2], v[3]))
RoundOut(v, t1, t2) ==
    <<Add32(t1, t2), v[1], v[2], v[3], Add32(v[4], t1), v[5], v[6], v[7]>>
Round(v, k, w) == RoundOut(v, RoundT1(v, k, w), RoundT2(v))

\* Rounds lo..hi, again by halves.
RECURSIVE Rounds(_, _, _, _)
RoundsRest(first, w, mid, hi) ==
    IF Len(first) = 8 THEN Rounds(first, w, mid + 1, hi) ELSE first
Rounds(v, w, lo, hi) ==
    IF lo = hi THEN Round(v, K32[lo], w[lo])
    ELSE RoundsRest(Rounds(v, w, lo, (lo + hi) \div 2), w, (lo + hi) \div 2, hi)

\* compress256 on one block.
AddState(state, v) == [i \in 1..8 |-> Add32(state[i], v[i])]
Compress(state, block) ==
    AddState(state,
             Rounds(state, Schedule([i \in 1..16 |-> WordBE(block, 4 * i - 3)], 17, 64),
                    1, 64))

(***************************************************************************)
(* sha2::Sha256 as a value: the chaining state, the number of blocks       *)
(* compressed so far, and the bytes buffered for the next block.           *)
(***************************************************************************)
\* Sha256::new()
Sha256New == [state |-> H256_INIT, block_len |-> 0, buffer |-> <<>>]

\* Compress every full block of the buffer, keep the rest.
RECURSIVE DigestBlocks(_)
DigestBlocks(h) ==
    IF Len(h.buffer) < BlockSize THEN h
    ELSE DigestBlocks([state     |-> Compress(h.state, SubSeq(h.buffer, 1, BlockSize)),
                       block_len |-> h.block_len + 1,
                       buffer    |-> SubSeq(h.buffer, BlockSize + 1, Len(h.buffer))])

\* Digest::update
Sha256Update(h, data) == DigestBlocks([h EXCEPT !.buffer = h.buffer \o data])

\* The low byte of n after k right shifts by 8 (u64::to_be_bytes, byte by byte).
RECURSIVE ShiftedByte(_, _)
ShiftedByte(n, k) == IF k = 0 THEN n % 256 ELSE ShiftedByte(n \div 256, k - 1)

\* len64_padding_be: 0x80, zeros up to 56 mod 64, then the bit length as u64 BE.
Padding(pos, bit_len) ==
    <<128>> \o [i \in 1..(IF pos < 56 THEN 55 - pos ELSE 119 - pos) |-> 0]
            \o [i \in 1..8 |-> ShiftedByte(bit_len, 8 - i)]

\* The eight state words written big-endian: the 32 output bytes.
ByteBE(word, k) ==
    CASE k = 0 -> word[1] \div 256
      [] k = 1 -> word[1] % 256
      [] k = 2 -> word[2] \div 256
      [] OTHER -> word[2] % 256
StateBytes(state) ==
    [i \in 1..OutputSize |-> ByteBE(state[((i - 1) \div 4) + 1], (i - 1) % 4)]

\* Digest::finalize
Sha256Finalize(h) ==
    StateBytes(DigestBlocks(
        [h EXCEPT !.buffer = h.buffer \o Padding(Len(h.buffer),
                                                 8 * (Len(h.buffer) + BlockSize * h.block_len))
        ]).state)

\* Sha256::digest(data): new, update, finalize in one go.
Sha256Digest(data) == Sha256Finalize(Sha256Update(Sha256New, data))

(***************************************************************************)
(* hmac::Hmac<Sha256> as a value: the inner hasher, which has taken the    *)
(* key block XOR ipad, and the outer hasher, which has taken the key block *)
(* XOR opad.                                                               *)
(***************************************************************************)
IPAD == 54
OPAD == 92

Zeros(n) == [i \in 1..n |-> 0]

\* get_der_key that cuts a long key to a block instead of hashing it.
GetDerKeyTruncate(key) ==
    IF Len(key) <= BlockSize
    THEN key \o Zeros(BlockSize - Len(key))
    ELSE SubSeq(key, 1, BlockSize)

\* get_der_key that already hashes a key of exactly one block.
GetDerKeyHashAtBlock(key) ==
    IF Len(key) < BlockSize
    THEN key \o Zeros(BlockSize - Len(key))
    ELSE Sha256Digest(key) \o Zeros(BlockSize - OutputSize)

\* get_der_key: a key longer than a block is hashed; the key is then laid over
\* a block of zeros.
GetDerKey(key) ==
    IF Len(key) <= BlockSize
    THEN key \o Zeros(BlockSize - Len(key))
    ELSE Sha256Digest(key) \o Zeros(BlockSize - OutputSize)

\* Hmac::new_from_slice: Result<Hmac, InvalidLength>.
\* The inner pad built with the outer constant.
InnerPadOpad(der) == [i \in 1..BlockSize |-> XorByte[der[i]][OPAD]]
InnerPad(der) == [i \in 1..BlockSize |-> XorByte[der[i]][IPAD]]
OuterPad(ibuf) == [i \in 1..BlockSize |-> XorByte[ibuf[i]][XorByte[IPAD][OPAD]]]
HmacFromDerKey(der) ==
    [ok  |-> TRUE,
     val |-> [digest      |-> Sha256Update(Sha256New, InnerPad(der)),
              opad_digest |-> Sha256Update(Sha256New, OuterPad(InnerPad(der)))]]
\* new_from_slice that takes a key of at most one block, as a block cipher would.
HmacNewFromSliceFixedLen(key) ==
    IF Len(key) > BlockSize
    THEN [ok |-> FALSE, val |-> "InvalidLength"]
    ELSE HmacFromDerKey(GetDerKey(key))
HmacNewFromSlice(key) == HmacFromDerKey(GetDerKey(key))

\* Mac::update
HmacUpdate(m, data) == [m EXCEPT !.digest = Sha256Update(m.digest, data)]

\* Mac::finalize: the outer hasher takes the inner digest; the tag is a CtOutput.
HmacFinalize(m) ==
    [bytes |-> Sha256Finalize(Sha256Update(m.opad_digest, Sha256Finalize(m.digest)))]

\* CtOutput::into_bytes
IntoBytes(output) == output.bytes

(***************************************************************************)
(* The two hex encoders.  A string is the sequence of its characters.      *)
(***************************************************************************)
\* generic-array's table for {:x}, and hex's table for encode.
LOWER_CHARS == <<"0", "1", "2", "3", "4", "5", "6", "7",
                 "8", "9", "a", "b", "c", "d", "e", "f">>
HEX_CHARS_LOWER == <<"0", "1", "2", "3", "4", "5", "6", "7",
                     "8", "9", "a", "b", "c", "d", "e", "f">>

\* {:x} applied byte by byte with no width: a byte below 16 yields one digit.
RECURSIVE FormatLowerHexNoPad(_)
FormatLowerHexNoPad(bytes) ==
    IF bytes = <<>> THEN <<>>
    ELSE (IF Head(bytes) < 16
          THEN <<LOWER_CHARS[Head(bytes) + 1]>>
          ELSE <<LOWER_CHARS[(Head(bytes) \div 16) + 1], LOWER_CHARS[(Head(bytes) % 16) + 1]>>)
         \o FormatLowerHexNoPad(Tail(bytes))

\* format!("{:x}", bytes): character 2i-1 is the table at (byte i >> 4), character
\* 2i the table at (byte i & 0xF); no precision is given, so all digits are kept.
FormatLowerHex(bytes) ==
    [j \in 1..(2 * Len(bytes)) |->
        IF j % 2 = 1
        THEN LOWER_CHARS[(bytes[(j + 1) \div 2] \div 16) + 1]
        ELSE LOWER_CHARS[AndByte[bytes[j \div 2]][15] + 1]]

\* hex::encode_upper in place of hex::encode.
HEX_CHARS_UPPER == <<"0", "1", "2", "3", "4", "5", "6", "7",
                     "8", "9", "A", "B", "C", "D", "E", "F">>
RECURSIVE HexEncodeUpper(_)
HexEncodeUpper(bytes) ==
    IF bytes = <<>> THEN <<>>
    ELSE <<HEX_CHARS_UPPER[(Head(bytes) \div 16) + 1],
           HEX_CHARS_UPPER[AndByte[Head(bytes)][15] + 1]>> \o HexEncodeUpper(Tail(bytes))

\* hex::encode(bytes): each byte in turn yields its high, then its low digit.
RECURSIVE HexEncode(_)
HexEncode(bytes) ==
    IF bytes = <<>> THEN <<>>
    ELSE <<HEX_CHARS_LOWER[(Head(bytes) \div 16) + 1],
           HEX_CHARS_LOWER[AndByte[Head(bytes)][15] + 1]>> \o HexEncode(Tail(bytes))

(***************************************************************************)
(* PyResult<String>                                                        *)
(***************************************************************************)
Ok(s) == [ok |-> TRUE, val |-> s]
Err(msg) == [ok |-> FALSE, val |-> msg]

(***************************************************************************)
(* The two functions, each run start to finish without interruption.       *)
(***************************************************************************)
calculate_sha256_bytes(data) ==
    Ok(FormatLowerHex(Sha256Finalize(Sha256Update(Sha256New, data))))

HmacWith(created, message_bytes) ==
    IF ~created.ok THEN Err("HMAC key error")
    ELSE Ok(HexEncode(IntoBytes(HmacFinalize(HmacUpdate(created.val, message_bytes)))))
calculate_hmac_sha256(secret_key_bytes, message_bytes) ==
    HmacWith(HmacNewFromSlice(secret_key_bytes), message_bytes)

(***************************************************************************)
(* Inputs.  A call is the function called and its arguments.               *)
(***************************************************************************)
Sha(data) == [fn |-> "calculate_sha256_bytes", args |-> <<data>>]
Hmac(key, message) == [fn |-> "calculate_hmac_sha256", args |-> <<key, message>>]

Rep(b, n) == [i \in 1..n |-> b]

\* "abc", "key", and "The quick brown fox jumps over the lazy dog".
Abc == <<97, 98, 99>>
KeyKey == <<107, 101, 121>>
Fox == <<84, 104, 101, 32, 113, 117, 105, 99, 107, 32, 98, 114, 111, 119, 110, 32,
         102, 111, 120, 32, 106, 117, 109, 112, 115, 32, 111, 118, 101, 114, 32,
         116, 104, 101, 32, 108, 97, 122, 121, 32, 100, 111, 103>>

\* Keys one byte short of a block, of one block, and one byte longer.
Key63 == [i \in 1..(BlockSize - 1) |-> i]
Key64 == [i \in 1..BlockSize |-> 2 * i]
Key65 == [i \in 1..(BlockSize + 1) |-> 3 * i]

\* The largest number of zero bytes appended to a key.
MaxZeros == 1

\* The calls one behaviour draws from: two digests; a digest whose padding takes
\* a second block, beside the HMAC of the published vector; keys that differ
\* only by trailing zero bytes; a key longer than a block and its digest used
\* as a key; two unrelated keys.
ZeroMenus ==
    {{Hmac(b \o Zeros(i), Abc), Hmac(b \o Zeros(j), Abc)} :
        <<b, i, j>> \in {q \in {<<>>, Key63} \X (0..MaxZeros) \X (0..MaxZeros) : q[2] < q[3]}}

Menus ==
    {{Sha(<<>>), Sha(Abc)},
     {Sha(Rep(97, 56)), Hmac(KeyKey, Fox)},
     {Hmac(Key65, <<>>), Hmac(Sha256Digest(Key65), <<>>)},
     {Hmac(Key64, <<>>), Hmac(KeyKey, <<>>)}} \cup ZeroMenus

AllCalls == UNION Menus

(***************************************************************************)
(* The program: callers that run the two functions step by step, each on   *)
(* locals of its own.                                                      *)
(***************************************************************************)
Threads == {1, 2}

None == [none |-> TRUE]

VARIABLES
    menu,         \* the calls this behaviour draws from
    pc,           \* pc[t]: where caller t stands
    call,         \* call[t]: the call caller t is making
    hasher,       \* calculate_sha256_bytes: let mut hasher
    hash_result,  \* calculate_sha256_bytes: let hash_result
    mac,          \* calculate_hmac_sha256: let mut mac
    result,       \* calculate_hmac_sha256: let result
    code_bytes,   \* calculate_hmac_sha256: let code_bytes
    ret,          \* ret[t]: what the call returned
    log           \* the calls the host has seen return, each with its result

vars == <<menu, pc, call, hasher, hash_result, mac, result, code_bytes, ret, log>>

Init ==
    /\ menu \in Menus
    /\ pc = [t \in Threads |-> "idle"]
    /\ call = [t \in Threads |-> None]
    /\ hasher = [t \in Threads |-> None]
    /\ hash_result = [t \in Threads |-> None]
    /\ mac = [t \in Threads |-> None]
    /\ result = [t \in Threads |-> None]
    /\ code_bytes = [t \in Threads |-> None]
    /\ ret = [t \in Threads |-> None]
    /\ log = {}

\* The host calls one of the two functions.
Call(t) ==
    /\ pc[t] = "idle"
    /\ \E c \in menu :
        /\ call' = [call EXCEPT ![t] = c]
        /\ pc' = [pc EXCEPT ![t] =
                IF c.fn = "calculate_sha256_bytes" THEN "sha_new" ELSE "hmac_new"]
    /\ UNCHANGED <<menu, log, hasher, hash_result, mac, result, code_bytes, ret>>

\* One hasher shared by all callers (a static): creating it resets it for everyone.
ShaNewShared(t) ==
    /\ pc[t] = "sha_new"
    /\ hasher' = [u \in Threads |-> Sha256New]
    /\ pc' = [pc EXCEPT ![t] = "sha_update"]
    /\ UNCHANGED <<menu, log, call, hash_result, mac, result, code_bytes, ret>>

\* let mut hasher = Sha256::new();
ShaNew(t) ==
    /\ pc[t] = "sha_new"
    /\ hasher' = [hasher EXCEPT ![t] = Sha256New]
    /\ pc' = [pc EXCEPT ![t] = "sha_update"]
    /\ UNCHANGED <<menu, log, call, hash_result, mac, result, code_bytes, ret>>

\* Empty data refused with an error.
ShaUpdateRejectEmpty(t) ==
    /\ pc[t] = "sha_update"
    /\ IF call[t].args[1] = <<>>
       THEN /\ hasher' = hasher
            /\ ret' = [ret EXCEPT ![t] = Err("empty data")]
            /\ pc' = [pc EXCEPT ![t] = "returned"]
       ELSE /\ hasher' = [hasher EXCEPT ![t] = Sha256Update(hasher[t], call[t].args[1])]
            /\ ret' = ret
            /\ pc' = [pc EXCEPT ![t] = "sha_finalize"]
    /\ UNCHANGED <<menu, log, call, hash_result, mac, result, code_bytes>>

\* hasher.update(data);
ShaUpdate(t) ==
    /\ pc[t] = "sha_update"
    /\ hasher' = [hasher EXCEPT ![t] = Sha256Update(hasher[t], call[t].args[1])]
    /\ pc' = [pc EXCEPT ![t] = "sha_finalize"]
    /\ UNCHANGED <<menu, log, call, hash_result, mac, result, code_bytes, ret>>

\* let hash_result = hasher.finalize();   (hasher is moved)
ShaFinalize(t) ==
    /\ pc[t] = "sha_finalize"
    /\ hash_result' = [hash_result EXCEPT ![t] = Sha256Finalize(hasher[t])]
    /\ hasher' = [hasher EXCEPT ![t] = None]
    /\ pc' = [pc EXCEPT ![t] = "sha_format"]
    /\ UNCHANGED <<menu, log, call, mac, result, code_bytes, ret>>

\* Ok(format!("{:x}", hash_result))
ShaFormat(t) ==
    /\ pc[t] = "sha_format"
    /\ ret' = [ret EXCEPT ![t] = Ok(FormatLowerHex(hash_result[t]))]
    /\ pc' = [pc EXCEPT ![t] = "returned"]
    /\ UNCHANGED <<menu, log, call, hasher, hash_result, mac, result, code_bytes>>

\* let mut mac = HmacSha256::new_from_slice(secret_key_bytes).map_err(..)?;
HmacCreated(t, created) ==
    IF created.ok
    THEN /\ mac' = [mac EXCEPT ![t] = created.val]
         /\ pc' = [pc EXCEPT ![t] = "hmac_update"]
         /\ ret' = ret
    ELSE /\ mac' = mac
         /\ pc' = [pc EXCEPT ![t] = "returned"]
         /\ ret' = [ret EXCEPT ![t] = Err("HMAC key error")]
HmacNew(t) ==
    /\ pc[t] = "hmac_new"
    /\ HmacCreated(t, HmacNewFromSlice(call[t].args[1]))
    /\ UNCHANGED <<menu, log, call, hasher, hash_result, result, code_bytes>>

\* The message fed to every live MAC, as if the MAC were shared by all callers.
HmacUpdateShared(t) ==
    /\ pc[t] = "hmac_update"
    /\ mac' = [u \in Threads |->
                IF pc[u] \in {"hmac_update", "hmac_finalize"}
                THEN HmacUpdate(mac[u], call[t].args[2])
                ELSE mac[u]]
    /\ pc' = [pc EXCEPT ![t] = "hmac_finalize"]
    /\ UNCHANGED <<menu, log, call, hasher, hash_result, result, code_bytes, ret>>

\* mac.update(message_bytes);
HmacUpdateStep(t) ==
    /\ pc[t] = "hmac_update"
    /\ mac' = [mac EXCEPT ![t] = HmacUpdate(mac[t], call[t].args[2])]
    /\ pc' = [pc EXCEPT ![t] = "hmac_finalize"]
    /\ UNCHANGED <<menu, log, call, hasher, hash_result, result, code_bytes, ret>>

\* let result = mac.finalize();   (mac is moved)
HmacFinalizeStep(t) ==
    /\ pc[t] = "hmac_finalize"
    /\ result' = [result EXCEPT ![t] = HmacFinalize(mac[t])]
    /\ mac' = [mac EXCEPT ![t] = None]
    /\ pc' = [pc EXCEPT ![t] = "hmac_into_bytes"]
    /\ UNCHANGED <<menu, log, call, hasher, hash_result, code_bytes, ret>>

\* let code_bytes = result.into_bytes();   (result is moved)
HmacIntoBytes(t) ==
    /\ pc[t] = "hmac_into_bytes"
    /\ code_bytes' = [code_bytes EXCEPT ![t] = IntoBytes(result[t])]
    /\ result' = [result EXCEPT ![t] = None]
    /\ pc' = [pc EXCEPT ![t] = "hmac_encode"]
    /\ UNCHANGED <<menu, log, call, hasher, hash_result, mac, ret>>

\* Ok(hex::encode(code_bytes))
HmacEncode(t) ==
    /\ pc[t] = "hmac_encode"
    /\ ret' = [ret EXCEPT ![t] = Ok(HexEncode(code_bytes[t]))]
    /\ pc' = [pc EXCEPT ![t] = "returned"]
    /\ UNCHANGED <<menu, log, call, hasher, hash_result, mac, result, code_bytes>>

\* The host takes the result; the locals of the call are gone.
Return(t) ==
    /\ pc[t] = "returned"
    /\ pc' = [pc EXCEPT ![t] = "idle"]
    /\ call' = [call EXCEPT ![t] = None]
    /\ hasher' = [hasher EXCEPT ![t] = None]
    /\ hash_result' = [hash_result EXCEPT ![t] = None]
    /\ mac' = [mac EXCEPT ![t] = None]
    /\ result' = [result EXCEPT ![t] = None]
    /\ code_bytes' = [code_bytes EXCEPT ![t] = None]
    /\ ret' = [ret EXCEPT ![t] = None]
    /\ log' = log \cup {<<call[t], ret[t]>>}
    /\ UNCHANGED menu

Next ==
    \E t \in Threads :
        \/ Call(t)
        \/ ShaNew(t)
        \/ ShaUpdate(t)
        \/ ShaFinalize(t)
        \/ ShaFormat(t)
        \/ HmacNew(t)
        \/ HmacUpdateStep(t)
        \/ HmacFinalizeStep(t)
        \/ HmacIntoBytes(t)
        \/ HmacEncode(t)
        \/ Return(t)

Spec == Init /\ [][Next]_vars

(***************************************************************************)
(* What the two functions are said to do.                                  *)
(***************************************************************************)
ShaName == "calculate_sha256_bytes"
HmacName == "calculate_hmac_sha256"

\* Every call that has returned, with its result: those the host has taken and
\* those it is about to take.
Returned == log \cup {<<call[t], ret[t]>> : t \in {u \in Threads : pc[u] = "returned"}}

\* The string spelled by a sequence of characters.
RECURSIVE Join(_)
Join(cs) == IF cs = <<>> THEN "" ELSE Head(cs) \o Join(Tail(cs))

\* C1: calculate_sha256_bytes returns a result, never an error, for every data,
\* the empty sequence included.
C1_ShaNeverFails == \A e \in Returned : e[1].fn = ShaName => e[2].ok

C1_Witness ==
    \E t \in Threads : pc[t] = "returned" /\ call[t] = Sha(<<>>) /\ ret[t].ok

\* C2: calculate_hmac_sha256 returns a tag, never the key error, for keys of
\* length 0, below 64, 64 and above 64, and for every message.
C2_HmacNeverKeyError == \A e \in Returned : e[1].fn = HmacName => e[2].ok

C2_Witness ==
    \E t, u \in Threads :
        /\ pc[t] = "returned" /\ call[t].fn = HmacName /\ ret[t].ok
        /\ Len(call[t].args[1]) > BlockSize
        /\ pc[u] = "returned" /\ call[u].fn = HmacName /\ ret[u].ok
        /\ Len(call[u].args[1]) < BlockSize

\* C3: every successful result of either function has exactly 64 characters.
C3_SixtyFourChars == \A e \in Returned : e[2].ok => Len(e[2].val) = 2 * OutputSize

C3_Witness ==
    \E t, u \in Threads :
        /\ pc[t] = "returned" /\ call[t].fn = ShaName /\ Len(ret[t].val) = 64
        /\ pc[u] = "returned" /\ call[u].fn = HmacName /\ Len(ret[u].val) = 64
        /\ Len(call[t].args[1]) = 56

\* C4: the digest of the empty input and of "abc" are the published values.
C4_KnownAnswers ==
    \A e \in Returned :
        /\ e[1] = Sha(<<>>) =>
            e[2].ok /\ Join(e[2].val)
                = "e3b0c44298fc1c149afbf4c8996fb92427ae41e4649b934ca495991b7852b855"
        /\ e[1] = Sha(Abc) =>
            e[2].ok /\ Join(e[2].val)
                = "ba7816bf8f01cfea414140de5dae2223b00361a396177a9cb410ff61f20015ad"

C4_Witness ==
    /\ <<Sha(<<>>), ret[1]>> \in Returned /\ pc[1] = "returned"
    /\ <<Sha(Abc), ret[2]>> \in Returned /\ pc[2] = "returned"
    /\ call[1] = Sha(<<>>) /\ call[2] = Sha(Abc)

\* C5: the tag of "The quick brown fox jumps over the lazy dog" under the key
\* "key" is the published value.
C5_FoxTag ==
    \A e \in Returned :
        e[1] = Hmac(KeyKey, Fox) =>
            e[2].ok /\ Join(e[2].val)
                = "f7bc83f430538424b13298e6aa6fb143ef4d59a14946175997479dbc2d1a3cd8"

C5_Witness ==
    \E t \in Threads : pc[t] = "returned" /\ call[t] = Hmac(KeyKey, Fox) /\ ret[t].ok

\* The calls of calculate_hmac_sha256 among the inputs.
HmacCalls == {c \in AllCalls : c.fn = HmacName}

\* RFC 2104: the block key K' of a key is SHA256(key) if the key is longer than
\* 64 bytes, else the key, padded with zero bytes to 64 bytes.
Rfc2104BlockKey(key) ==
    (IF Len(key) > 64 THEN Sha256Digest(key) ELSE key)
        \o [i \in 1..(64 - (IF Len(key) > 64 THEN 32 ELSE Len(key))) |-> 0]

BlockKeyOf == [c \in HmacCalls |-> Rfc2104BlockKey(c.args[1])]

C7_Deterministic ==
    \A e1, e2 \in Returned : e1[1] = e2[1] => e1[2] = e2[2]

C7_Witness ==
    \E t \in Threads : \E e1, e2 \in log :
        /\ pc[t] = "returned" /\ call[t] = e1[1] /\ ret[t] = e1[2]
        /\ e2[1] # e1[1]

\* What each call returns when it runs alone, start to finish.
Alone ==
    [c \in AllCalls |->
        IF c.fn = ShaName
        THEN calculate_sha256_bytes(c.args[1])
        ELSE calculate_hmac_sha256(c.args[1], c.args[2])]

\* C8: with the steps of concurrent calls interleaved in any way, each call
\* returns what it returns alone.
C8_InterleavedAsAlone ==
    \A t \in Threads : pc[t] = "returned" => ret[t] = Alone[call[t]]

C8_Witness ==
    \E t, u \in Threads :
        /\ pc[t] = "returned" /\ call[t].fn = ShaName /\ ret[t] = Alone[call[t]]
        /\ pc[u] = "hmac_finalize"

\* Hex digits, and the value of one (a decoder takes either case).
HexDigits == <<"0", "1", "2", "3", "4", "5", "6", "7",
               "8", "9", "a", "b", "c", "d", "e", "f">>
HexDigitValue(c) ==
    CASE c = "0" -> 0 [] c = "1" -> 1 [] c = "2" -> 2 [] c = "3" -> 3
      [] c = "4" -> 4 [] c = "5" -> 5 [] c = "6" -> 6 [] c = "7" -> 7
      [] c = "8" -> 8 [] c = "9" -> 9
      [] c \in {"a", "A"} -> 10 [] c \in {"b", "B"} -> 11 [] c \in {"c", "C"} -> 12
      [] c \in {"d", "D"} -> 13 [] c \in {"e", "E"} -> 14 [] c \in {"f", "F"} -> 15
HexDecode(cs) ==
    [i \in 1..(Len(cs) \div 2) |->
        16 * HexDigitValue(cs[2 * i - 1]) + HexDigitValue(cs[2 * i])]
EncodeLower(bytes) ==
    [j \in 1..(2 * Len(bytes)) |->
        IF j % 2 = 1 THEN HexDigits[(bytes[(j + 1) \div 2] \div 16) + 1]
                     ELSE HexDigits[(bytes[j \div 2] % 16) + 1]]

\* The 32 bytes a returned call has encoded.
EncodedBytes(t) == IF call[t].fn = ShaName THEN hash_result[t] ELSE code_bytes[t]

\* C9: a result has only the characters 0-9a-f, two per byte with the high
\* nibble first; decoding it and encoding it again in lowercase gives it back;
\* and the two encoders agree on the 32 bytes.
C9_LowercaseHex ==
    \A t \in Threads :
        pc[t] = "returned" =>
            /\ \A j \in 1..Len(ret[t].val) : \E d \in 1..16 : ret[t].val[j] = HexDigits[d]
            /\ Len(ret[t].val) = 2 * Len(EncodedBytes(t))
            /\ \A i \in 1..Len(EncodedBytes(t)) :
                /\ ret[t].val[2 * i - 1] = HexDigits[(EncodedBytes(t)[i] \div 16) + 1]
                /\ ret[t].val[2 * i] = HexDigits[(EncodedBytes(t)[i] % 16) + 1]
            /\ EncodeLower(HexDecode(ret[t].val)) = ret[t].val
            /\ FormatLowerHex(EncodedBytes(t)) = HexEncode(EncodedBytes(t))

C9_Witness ==
    \E t, u \in Threads :
        /\ pc[t] = "returned" /\ call[t] = Hmac(KeyKey, Fox)
        /\ ret[t].val[1] = "f" /\ ret[t].val[2] = "7" /\ code_bytes[t][1] = 247
        /\ pc[u] = "returned" /\ call[u].fn = ShaName
        /\ HexDecode(ret[u].val) = hash_result[u]

\* RFC 2104 over SHA-256:
\* SHA256((K' XOR 0x5c*64) || SHA256((K' XOR 0x36*64) || message)).
XorPad(k, pad) == [i \in 1..64 |-> XorByte[k[i]][pad]]
Rfc2104(key, message) ==
    Sha256Digest(XorPad(Rfc2104BlockKey(key), 92)
                 \o Sha256Digest(XorPad(Rfc2104BlockKey(key), 54) \o message))
Rfc2104Tag == [c \in HmacCalls |-> EncodeLower(Rfc2104(c.args[1], c.args[2]))]

\* C10: the tag is the hex encoding of the RFC 2104 construction over SHA-256.
C10_Rfc2104 ==
    \A e \in Returned :
        e[1].fn = HmacName => e[2].ok /\ e[2].val = Rfc2104Tag[e[1]]

C10_Witness ==
    \E t \in Threads :
        /\ pc[t] = "returned" /\ call[t] = Hmac(Key65, <<>>)
        /\ ret[t].val = Rfc2104Tag[call[t]]
====
